---- MODULE Spec2Model ----
(***************************************************************************)
(* Model of package logging (src/logging/logging.go): the six level        *)
(* handles, the four logging entry points and the JSON helper, the record  *)
(* assembly of logGenericArgs, the stack lookup of GetStackInfo and the    *)
(* emission of one line per call through the shared json.Encoder bound to  *)
(* os.Stdout.                                                              *)
(*                                                                         *)
(* Go strings are TLA+ strings.  A message template is given as the        *)
(* sequence of its lexemes (text runs and {{...}} actions); the template   *)
(* string itself is the concatenation of the lexemes.  A Go error is a     *)
(* sequence: <<>> is nil, <<m>> is an error whose Error() is m.  An Args   *)
(* argument is [isNil, m]: a nil map, or a reference to the caller's map   *)
(* whose contents are m.  A goroutine's stack is a sequence of frames,     *)
(* innermost first.                                                        *)
(***************************************************************************)
EXTENDS Naturals, Sequences, FiniteSets, TLC

VARIABLES
    pc,          \* per goroutine: "ready", "encode" (inside jsonWriter.Encode), "panicked"
    call,        \* per goroutine: the operation in progress or last completed, with its locals
    pending,     \* per goroutine: the byte slices Encode still has to hand to os.Stdout.Write
    heap,        \* per goroutine: the contents of the caller's own Args map
    ret,         \* per goroutine: what the last operation returned to its caller
    ncalls,      \* per goroutine: how many operations it has started
    stdout,      \* the bytes written to os.Stdout so far
    clock,       \* the wall clock read by time.Now()
    terminated,  \* the process has been brought down by panic
    panicValue   \* the value handed to panic, <<>> while no panic happened

vars == <<pc, call, pending, heap, ret, ncalls, stdout, clock, terminated, panicValue>>

-----------------------------------------------------------------------------
(* Bounds of the model.                                                    *)

\* operations one goroutine starts in the sequential specification
MaxCalls == 2
\* operations one goroutine starts in the specification over all six levels
MaxLevelCalls == 1
\* goroutines logging concurrently
NumCtx == 2
\* largest stackDepth a caller hands to GetStackInfo
MaxSkip == 4

-----------------------------------------------------------------------------
(* String helpers.                                                         *)

RECURSIVE Join(_)
\* the concatenation of a sequence of strings
Join(ss) == IF ss = <<>> THEN "" ELSE Head(ss) \o Join(Tail(ss))

Digit(d) ==
    CASE d = 0 -> "0" [] d = 1 -> "1" [] d = 2 -> "2" [] d = 3 -> "3" [] d = 4 -> "4"
      [] d = 5 -> "5" [] d = 6 -> "6" [] d = 7 -> "7" [] d = 8 -> "8" [] d = 9 -> "9"

RECURSIVE Itoa(_)
\* strconv.Itoa for a non-negative int
Itoa(i) == IF i < 10 THEN Digit(i) ELSE Itoa(i \div 10) \o Digit(i % 10)

\* Int converts an int to a base 10 string
Int(i) == Itoa(i)

\* filepath.Base of a slash-separated path, given as its elements
Base(path) == IF path = <<>> THEN "." ELSE path[Len(path)]

\* The nil error and the error with message m
NilErr == <<>>
Err(m) == <<m>>

-----------------------------------------------------------------------------
(* Level registry: init().                                                 *)

traceLogger == [Level |-> "trace", IsFatal |-> FALSE]
debugLogger == [Level |-> "debug", IsFatal |-> FALSE]
infoLogger  == [Level |-> "info",  IsFatal |-> FALSE]
warnLogger  == [Level |-> "warn",  IsFatal |-> FALSE]
\* errorLogger, had it been given the fatal flag
errorLoggerFatal == [Level |-> "error", IsFatal |-> TRUE]
errorLogger == [Level |-> "error", IsFatal |-> FALSE]
\* fatalLogger, had its fatal flag been left unset
fatalLoggerNotFatal == [Level |-> "fatal", IsFatal |-> FALSE]
fatalLogger == [Level |-> "fatal", IsFatal |-> TRUE]

Trace == traceLogger
Debug == debugLogger
Info  == infoLogger
Warn  == warnLogger
Error == errorLogger
Fatal == fatalLogger

Loggers == {Trace, Debug, Info, Warn, Error, Fatal}

\* os.Args[0] of the modelled process, as path elements
OsArgs0 == <<"usr", "local", "bin", "lokalise-listener">>

loggerExeName == Base(OsArgs0)

-----------------------------------------------------------------------------
(* Templates: text/template as logGenericArgs uses it, over data of type   *)
(* Args (map[string]string).                                               *)

\* what the template lexer makes of one lexeme
LexKind(l) ==
    CASE l = "{{" -> "unclosed"
      [] l \in {"{{.user}}", "{{.msg}}"} -> "field"
      [] l = "{{.user.name}}" -> "chain"
      [] OTHER -> "text"

\* the key a {{.key}} action looks up
FieldName(l) == IF l = "{{.user}}" THEN "user" ELSE "msg"

\* template.New("").Parse(text): the parse tree, or the parse error
Parse(lexemes) ==
    IF \E i \in 1..Len(lexemes) : LexKind(lexemes[i]) = "unclosed"
    THEN [err |-> Err("template: :1: unclosed action"), tree |-> <<>>]
    ELSE [err |-> NilErr, tree |-> lexemes]

RECURSIVE Execute(_, _, _)
\* t.Execute(&buf, args): nodes are written to buf in order; a field of a
\* map[string]string yields the value, or the zero value "" for a missing key;
\* a field of a string cannot be evaluated and stops execution with what was
\* written so far left in buf
Execute(tree, data, buf) ==
    IF tree = <<>> THEN [err |-> NilErr, buf |-> buf]
    ELSE LET n == Head(tree) IN
         CASE LexKind(n) = "text" -> Execute(Tail(tree), data, buf \o n)
           [] LexKind(n) = "field" ->
                Execute(Tail(tree), data,
                        buf \o (IF FieldName(n) \in DOMAIN data THEN data[FieldName(n)] ELSE ""))
           [] OTHER ->
                [err |-> Err("template: :1: executing at <.user.name>: can't evaluate field name in type string"),
                 buf |-> buf]

\* A nil Args, and a reference to a map with contents m
NilArgs == [isNil |-> TRUE, m |-> <<>>]
MapArgs(m) == [isNil |-> FALSE, m |-> m]

\* args[k] = v on a Go map
MapSet(m, k, v) == [x \in DOMAIN m \cup {k} |-> IF x = k THEN v ELSE m[x]]

\* Render without the `args != nil` test: the template machinery always runs
RenderParseAlways(lexemes, args) ==
    LET p == Parse(lexemes) IN
    IF p.err # NilErr
    THEN [msg |-> Join(lexemes), args |-> MapArgs(MapSet(args.m, "_templateErr", p.err[1]))]
    ELSE LET e == Execute(p.tree, args.m, "") IN
         IF e.err # NilErr
         THEN [msg |-> Join(lexemes), args |-> MapArgs(MapSet(args.m, "_templateErr", e.err[1]))]
         ELSE [msg |-> e.buf, args |-> args]

\* Render that drops the parse error instead of recording it in args
RenderSilentParse(lexemes, args) ==
    IF args.isNil THEN [msg |-> Join(lexemes), args |-> args]
    ELSE LET p == Parse(lexemes) IN
         IF p.err # NilErr
         THEN [msg |-> Join(lexemes), args |-> args]
         ELSE LET e == Execute(p.tree, args.m, "") IN
              IF e.err # NilErr
              THEN [msg |-> Join(lexemes), args |-> MapArgs(MapSet(args.m, "_templateErr", e.err[1]))]
              ELSE [msg |-> e.buf, args |-> args]

\* Render that takes buf.String() as msg also when Execute failed
RenderPartial(lexemes, args) ==
    IF args.isNil THEN [msg |-> Join(lexemes), args |-> args]
    ELSE LET p == Parse(lexemes) IN
         IF p.err # NilErr
         THEN [msg |-> Join(lexemes), args |-> MapArgs(MapSet(args.m, "_templateErr", p.err[1]))]
         ELSE LET e == Execute(p.tree, args.m, "") IN
              IF e.err # NilErr
              THEN [msg |-> e.buf, args |-> MapArgs(MapSet(args.m, "_templateErr", e.err[1]))]
              ELSE [msg |-> e.buf, args |-> args]

\* Render that writes the "_templateErr" key on success too
RenderMarksAlways(lexemes, args) ==
    IF args.isNil THEN [msg |-> Join(lexemes), args |-> args]
    ELSE LET p == Parse(lexemes) IN
         IF p.err # NilErr
         THEN [msg |-> Join(lexemes), args |-> MapArgs(MapSet(args.m, "_templateErr", p.err[1]))]
         ELSE LET e == Execute(p.tree, args.m, "") IN
              IF e.err # NilErr
              THEN [msg |-> Join(lexemes), args |-> MapArgs(MapSet(args.m, "_templateErr", e.err[1]))]
              ELSE [msg |-> e.buf, args |-> MapArgs(MapSet(args.m, "_templateErr", ""))]

\* logGenericArgs, the rendering of msg: the message, and the Args map as the
\* call leaves it (the map is the caller's: the assignment is seen by the caller)
Render(lexemes, args) ==
    IF args.isNil THEN [msg |-> Join(lexemes), args |-> args]
    ELSE LET p == Parse(lexemes) IN
         IF p.err # NilErr
         THEN [msg |-> Join(lexemes), args |-> MapArgs(MapSet(args.m, "_templateErr", p.err[1]))]
         ELSE LET e == Execute(p.tree, args.m, "") IN
              IF e.err # NilErr
              THEN [msg |-> Join(lexemes), args |-> MapArgs(MapSet(args.m, "_templateErr", e.err[1]))]
              ELSE [msg |-> e.buf, args |-> args]

-----------------------------------------------------------------------------
(* Stack inspection: GetStackInfo.                                         *)

\* a frame: source file (path elements), function (the dot-separated parts of
\* runtime.Func.Name, <<>> when FuncForPC has nothing), line
Frame(file, fn, line) == [file |-> file, fn |-> fn, line |-> line]

frameGetStackInfo  == Frame(<<"logging", "logging.go">>, <<"logging", "GetStackInfo">>, 130)
frameLogGenericArgs == Frame(<<"logging", "logging.go">>, <<"logging", "(*Logger)", "logGenericArgs">>, 74)
frameLog        == Frame(<<"logging", "logging.go">>, <<"logging", "(*Logger)", "Log">>, 50)
frameLogArgs    == Frame(<<"logging", "logging.go">>, <<"logging", "(*Logger)", "LogArgs">>, 56)
frameLogErr     == Frame(<<"logging", "logging.go">>, <<"logging", "(*Logger)", "LogErr">>, 61)
frameLogErrArgs == Frame(<<"logging", "logging.go">>, <<"logging", "(*Logger)", "LogErrArgs">>, 67)
frameJSON       == Frame(<<"logging", "logging.go">>, <<"logging", "JSON">>, 221)

\* runtime.Caller(skip), called by the function of stk[1]
RuntimeCaller(skip, stk) ==
    IF skip + 1 <= Len(stk) THEN [ok |-> TRUE, frame |-> stk[skip + 1]]
    ELSE [ok |-> FALSE, frame |-> Frame(<<>>, <<>>, 0)]

\* strings.TrimLeft(filepath.Ext(fn.Name()), "."): the part after the last dot
FuncBase(fn) == fn[Len(fn)]

\* GetStackInfo that forgets to skip its own frame
GetStackInfoNoSkip(stackDepth, stk) ==
    LET c == RuntimeCaller(stackDepth, stk) IN
    IF c.ok
    THEN <<Base(c.frame.file),
           IF c.frame.fn # <<>> THEN FuncBase(c.frame.fn) \o "()" ELSE "?()",
           Int(c.frame.line)>>
    ELSE <<"?", "?()", "0">>

\* GetStackInfo(stackDepth), running with stack stk (stk[1] is its own frame)
GetStackInfo(stackDepth, stk) ==
    LET c == RuntimeCaller(stackDepth + 1, stk) IN
    IF c.ok
    THEN <<Base(c.frame.file),
           IF c.frame.fn # <<>> THEN FuncBase(c.frame.fn) \o "()" ELSE "?()",
           Int(c.frame.line)>>
    ELSE <<"?", "?()", "0">>

-----------------------------------------------------------------------------
(* Record assembly and emission.                                           *)

\* the argument name used as the field name, without the prefix
ArgKeyBare(k) == k

\* the field name of argument k
ArgKey(k) == "arg_" \o k

\* time.Now().Format(time.RFC3339Nano), for the clock reading t
FormatTime(t) == "2006-01-02T15:04:05." \o Itoa(t) \o "Z"

\* m with the entries of n added, n's entry taken where both have the key
Override(m, n) == [k \in DOMAIN m \cup DOMAIN n |-> IF k \in DOMAIN n THEN n[k] ELSE m[k]]

\* the fields `for k, v := range args { fullArgs["arg_"+k] = v }` assigns
ArgFields(m) ==
    LET keys == {ArgKey(k) : k \in DOMAIN m} IN
    [f \in keys |-> m[CHOOSE k \in DOMAIN m : ArgKey(k) = f]]

\* FullArgs that sets the error field without the `err != nil` test
FullArgsErrAlways(msgTemplate, msg, now, logger, loc, args, err) ==
    LET fixed == [msgTemplate |-> msgTemplate, msg |-> msg, time |-> FormatTime(now),
                  level |-> logger.Level, file |-> loc[1], func |-> loc[2],
                  line |-> loc[3], process |-> loggerExeName]
        withArgs == Override(fixed, ArgFields(args.m))
    IN Override(withArgs, [error |-> IF err # NilErr THEN err[1] ELSE ""])

\* logGenericArgs, the assembly of fullArgs
FullArgs(msgTemplate, msg, now, logger, loc, args, err) ==
    LET fixed == [msgTemplate |-> msgTemplate, msg |-> msg, time |-> FormatTime(now),
                  level |-> logger.Level, file |-> loc[1], func |-> loc[2],
                  line |-> loc[3], process |-> loggerExeName]
        withArgs == Override(fixed, ArgFields(args.m))
    IN IF err # NilErr THEN Override(withArgs, [error |-> err[1]]) ELSE withArgs

\* what is written to the stream: a JSON object, or the newline after it
Obj(fields) == [kind |-> "obj", val |-> fields]
Newline == [kind |-> "nl", val |-> <<>>]

\* an Encode that hands the object and the newline to Write separately
EncodeSplit(v) == << <<Obj(v)>>, <<Newline>> >>

\* jsonWriter.Encode(v): the byte slices handed to os.Stdout.Write, one per
\* Write call: the object and its newline are marshalled into the call's own
\* buffer and written with a single Write
Encode(v) == << <<Obj(v), Newline>> >>

-----------------------------------------------------------------------------
(* The JSON helper's serialization.                                        *)

\* values handed to JSON: kind is the Go kind, text the JSON text of a
\* serializable value
jInt    == [kind |-> "int",    text |-> "42"]
jString == [kind |-> "string", text |-> "\"a<b\""]
jChan   == [kind |-> "chan",   text |-> ""]
jFunc   == [kind |-> "func",   text |-> ""]

\* encoder.Encode(j) into buf: the text and a newline, or the error and nothing
JSONEncode(j) ==
    IF j.kind \in {"chan", "func", "complex"}
    THEN [err |-> Err("json: unsupported type: " \o j.kind), buf |-> <<>>]
    ELSE [err |-> NilErr, buf |-> <<j.text, "\n">>]

\* strings.TrimSuffix(buf.String(), "\n"), buf given as its chunks
TrimSuffix(buf) ==
    IF buf # <<>> /\ buf[Len(buf)] = "\n" THEN Join(SubSeq(buf, 1, Len(buf) - 1)) ELSE Join(buf)

\* fmt.Sprintf("<error: %v>", err)
Placeholder(err) == "<error: " \o err[1] \o ">"

-----------------------------------------------------------------------------
(* Inputs of the bounded model.                                            *)

tplPlain    == <<"hello">>
tplOk       == <<"hi ", "{{.user}}">>
tplBadParse == <<"oops ", "{{">>
tplBadExec  == <<"id=", "{{.user.name}}">>

Templates == {tplPlain, tplOk, tplBadParse, tplBadExec}

\* the maps a caller builds before a call
ArgSets == { <<>>, [user |-> "alice", msg |-> "bob"], ("_templateErr" :> "mine") }

ErrValues == {NilErr, Err(""), Err("boom")}
ArgErrValues == {NilErr, Err("boom")}

JSONValues == {jInt, jString, jChan, jFunc}

frameMain    == Frame(<<"app", "cmd", "main.go">>, <<"main", "main">>, 59)
frameServe   == Frame(<<"app", "server.go">>, <<"main", "(*Server)", "ServeGrpc">>, 120)
frameNoFunc  == Frame(<<"app", "gen.go">>, <<>>, 7)
frameRtMain  == Frame(<<"runtime", "proc.go">>, <<"runtime", "main">>, 250)
frameGoexit  == Frame(<<"runtime", "asm_amd64.s">>, <<"runtime", "goexit">>, 1650)

\* the stacks of the code that calls into the package, innermost frame first
mainStack   == <<frameMain, frameRtMain, frameGoexit>>
serveStack  == <<frameServe, frameMain, frameRtMain, frameGoexit>>
workerStack == <<frameNoFunc, frameGoexit>>

UserStacks == {mainStack, serveStack, workerStack}

-----------------------------------------------------------------------------
(* State.                                                                  *)

\* the record of a goroutine's operation: its inputs, the locals of
\* logGenericArgs (logged: logGenericArgs ran, now: its reading of the clock),
\* and the length of the stream and the contents of the caller's map when it
\* started
NoCall ==
    [op |-> "none", logger |-> infoLogger, lexemes |-> <<>>, err |-> NilErr,
     args |-> NilArgs, ustk |-> <<>>, depth |-> 0, jval |-> jInt,
     loc |-> <<>>, msg |-> "", rec |-> <<>>, logged |-> FALSE, out0 |-> 0, heap0 |-> <<>>,
     now |-> 0]

InitOver(ctxs) ==
    /\ pc = [c \in ctxs |-> "ready"]
    /\ call = [c \in ctxs |-> NoCall]
    /\ pending = [c \in ctxs |-> <<>>]
    /\ heap = [c \in ctxs |-> <<>>]
    /\ ret = [c \in ctxs |-> <<>>]
    /\ ncalls = [c \in ctxs |-> 0]
    /\ stdout = <<>>
    /\ clock = 0
    /\ terminated = FALSE
    /\ panicValue = <<>>

\* goroutine c may start an operation
Ready(c, max) == pc[c] = "ready" /\ ~terminated /\ ncalls[c] < max

\* the Args values goroutine c can hand over: nil, a map it has just built,
\* or the map it used before
ArgChoices(c) == {NilArgs} \cup {MapArgs(m) : m \in ArgSets \cup {heap[c]}}

-----------------------------------------------------------------------------
(* Operations.                                                             *)

\* logGenericArgs up to and including the marshalling inside
\* jsonWriter.Encode; stk is the goroutine's stack with logGenericArgs on top
logGenericArgs(c, op, logger, lexemes, err, args, stackDepth, stk, jval) ==
    LET loc == GetStackInfo(stackDepth + 1, <<frameGetStackInfo>> \o stk)
        r   == Render(lexemes, args)
        rec == FullArgs(Join(lexemes), r.msg, clock, logger, loc, r.args, err)
    IN /\ heap' = [heap EXCEPT ![c] = IF args.isNil THEN @ ELSE r.args.m]
       /\ call' = [call EXCEPT ![c] =
                     [op |-> op, logger |-> logger, lexemes |-> lexemes, err |-> err,
                      args |-> args, ustk |-> SubSeq(stk, 3, Len(stk)), depth |-> stackDepth,
                      jval |-> jval, loc |-> loc, msg |-> r.msg, rec |-> rec,
                      logged |-> TRUE, out0 |-> Len(stdout),
                      heap0 |-> IF args.isNil THEN heap[c] ELSE args.m, now |-> clock]]
       /\ pending' = [pending EXCEPT ![c] = Encode(rec)]
       /\ pc' = [pc EXCEPT ![c] = "encode"]
       /\ ret' = [ret EXCEPT ![c] = <<>>]
       /\ ncalls' = [ncalls EXCEPT ![c] = @ + 1]
       /\ clock' = clock + 1
       /\ UNCHANGED <<stdout, terminated, panicValue>>

Log(c, logger, lexemes, ustk) ==
    logGenericArgs(c, "Log", logger, lexemes, NilErr, NilArgs, 1,
                   <<frameLogGenericArgs, frameLog>> \o ustk, jInt)

LogArgs(c, logger, lexemes, args, ustk) ==
    logGenericArgs(c, "LogArgs", logger, lexemes, NilErr, args, 1,
                   <<frameLogGenericArgs, frameLogArgs>> \o ustk, jInt)

LogErr(c, logger, lexemes, err, ustk) ==
    logGenericArgs(c, "LogErr", logger, lexemes, err, NilArgs, 1,
                   <<frameLogGenericArgs, frameLogErr>> \o ustk, jInt)

LogErrArgs(c, logger, lexemes, err, args, ustk) ==
    logGenericArgs(c, "LogErrArgs", logger, lexemes, err, args, 1,
                   <<frameLogGenericArgs, frameLogErrArgs>> \o ustk, jInt)

\* one os.Stdout.Write of jsonWriter.Encode: the slice reaches the stream whole
\* (os.File serializes concurrent Writes); the stream is taken to accept every
\* write, Encode's error result being dropped by logGenericArgs
Write(c) ==
    /\ pc[c] = "encode" /\ ~terminated
    /\ pending[c] # <<>>
    /\ stdout' = stdout \o Head(pending[c])
    /\ pending' = [pending EXCEPT ![c] = Tail(@)]
    /\ UNCHANGED <<pc, call, heap, ret, ncalls, clock, terminated, panicValue>>

\* logGenericArgs after Encode, IsFatal not set: the call returns; JSON then
\* returns its placeholder
Return(c) ==
    /\ pc[c] = "encode" /\ ~terminated
    /\ pending[c] = <<>>
    /\ ~call[c].logger.IsFatal
    /\ pc' = [pc EXCEPT ![c] = "ready"]
    /\ ret' = [ret EXCEPT ![c] =
                 IF call[c].op = "JSON" THEN <<Placeholder(call[c].err)>> ELSE <<>>]
    /\ UNCHANGED <<call, pending, heap, ncalls, stdout, clock, terminated, panicValue>>

\* logGenericArgs after Encode, IsFatal set: panic(msg)
Panic(c) ==
    /\ pc[c] = "encode" /\ ~terminated
    /\ pending[c] = <<>>
    /\ call[c].logger.IsFatal
    /\ pc' = [pc EXCEPT ![c] = "panicked"]
    /\ terminated' = TRUE
    /\ panicValue' = <<call[c].msg>>
    /\ UNCHANGED <<call, pending, heap, ret, ncalls, stdout, clock>>

\* JSON(j)
JSON(c, j, ustk) ==
    LET e == JSONEncode(j) IN
    IF e.err = NilErr
    THEN /\ ret' = [ret EXCEPT ![c] = <<TrimSuffix(e.buf)>>]
         /\ call' = [call EXCEPT ![c] = [NoCall EXCEPT !.op = "JSON", !.jval = j, !.ustk = ustk,
                                                   !.out0 = Len(stdout), !.heap0 = heap[c]]]
         /\ ncalls' = [ncalls EXCEPT ![c] = @ + 1]
         /\ UNCHANGED <<pc, pending, heap, stdout, clock, terminated, panicValue>>
    ELSE logGenericArgs(c, "JSON", Error, <<"error serializing value to json">>, e.err,
                        NilArgs, 1, <<frameLogGenericArgs, frameJSON>> \o ustk, j)

\* a direct call of GetStackInfo(stackDepth)
GetStackInfoCall(c, stackDepth, ustk) ==
    /\ ret' = [ret EXCEPT ![c] = GetStackInfo(stackDepth, <<frameGetStackInfo>> \o ustk)]
    /\ call' = [call EXCEPT ![c] =
                  [NoCall EXCEPT !.op = "GetStackInfo", !.depth = stackDepth, !.ustk = ustk,
                                 !.out0 = Len(stdout), !.heap0 = heap[c]]]
    /\ ncalls' = [ncalls EXCEPT ![c] = @ + 1]
    /\ UNCHANGED <<pc, pending, heap, stdout, clock, terminated, panicValue>>

-----------------------------------------------------------------------------
(* Specifications.                                                         *)

\* One goroutine, one level handle besides the fatal one, every template,
\* Argument Set and error.
SeqCtx == {1}

Init == InitOver(SeqCtx)

Next ==
    \/ \E c \in SeqCtx, logger \in {Info, Fatal}, lexemes \in Templates :
          Ready(c, MaxCalls) /\ Log(c, logger, lexemes, mainStack)
    \/ \E c \in SeqCtx, logger \in {Info, Fatal}, lexemes \in Templates :
          /\ Ready(c, MaxCalls)
          /\ \E args \in ArgChoices(c) : LogArgs(c, logger, lexemes, args, mainStack)
    \/ \E c \in SeqCtx, logger \in {Info, Fatal}, lexemes \in Templates, err \in ErrValues :
          Ready(c, MaxCalls) /\ LogErr(c, logger, lexemes, err, mainStack)
    \/ \E c \in SeqCtx, logger \in {Info, Fatal}, lexemes \in Templates, err \in ArgErrValues :
          /\ Ready(c, MaxCalls)
          /\ \E args \in ArgChoices(c) : LogErrArgs(c, logger, lexemes, err, args, mainStack)
    \/ \E c \in SeqCtx, j \in JSONValues : Ready(c, MaxCalls) /\ JSON(c, j, mainStack)
    \/ \E c \in SeqCtx : Write(c)
    \/ \E c \in SeqCtx : Return(c)
    \/ \E c \in SeqCtx : Panic(c)

Spec == Init /\ [][Next]_vars

\* One goroutine, every level handle, entry point and caller stack.
LevelInit == InitOver(SeqCtx)

LevelNext ==
    \/ \E c \in SeqCtx, logger \in Loggers, lexemes \in {tplOk, tplBadExec}, ustk \in UserStacks :
          Ready(c, MaxLevelCalls) /\ Log(c, logger, lexemes, ustk)
    \/ \E c \in SeqCtx, logger \in Loggers, lexemes \in {tplOk, tplBadExec}, ustk \in UserStacks :
          Ready(c, MaxLevelCalls) /\ LogArgs(c, logger, lexemes, MapArgs([user |-> "alice"]), ustk)
    \/ \E c \in SeqCtx, logger \in Loggers, lexemes \in {tplOk, tplBadExec}, ustk \in UserStacks,
          err \in ErrValues :
          Ready(c, MaxLevelCalls) /\ LogErr(c, logger, lexemes, err, ustk)
    \/ \E c \in SeqCtx, logger \in Loggers, lexemes \in {tplOk, tplBadExec}, ustk \in UserStacks,
          err \in ErrValues :
          /\ Ready(c, MaxLevelCalls)
          /\ LogErrArgs(c, logger, lexemes, err, MapArgs([user |-> "alice"]), ustk)
    \/ \E c \in SeqCtx, j \in JSONValues, ustk \in UserStacks :
          Ready(c, MaxLevelCalls) /\ JSON(c, j, ustk)
    \/ \E c \in SeqCtx, d \in 0..MaxSkip, ustk \in UserStacks :
          Ready(c, MaxLevelCalls) /\ GetStackInfoCall(c, d, ustk)
    \/ \E c \in SeqCtx : Write(c)
    \/ \E c \in SeqCtx : Return(c)
    \/ \E c \in SeqCtx : Panic(c)

LevelSpec == LevelInit /\ [][LevelNext]_vars

\* NumCtx goroutines, each making one logging call, all writing through the
\* one jsonWriter.
ConcCtx == 1..NumCtx

ConcInit == InitOver(ConcCtx)

ConcNext ==
    \/ \E c \in ConcCtx, logger \in {Info, Fatal} :
          Ready(c, 1) /\ Log(c, logger, tplPlain, mainStack)
    \/ \E c \in ConcCtx, logger \in {Info, Fatal} :
          /\ Ready(c, 1)
          /\ LogErrArgs(c, logger, tplBadParse, Err("boom"), MapArgs([user |-> "alice"]),
                        serveStack)
    \/ \E c \in ConcCtx : Write(c)
    \/ \E c \in ConcCtx : Return(c)
    \/ \E c \in ConcCtx : Panic(c)

ConcSpec == ConcInit /\ [][ConcNext]_vars

-----------------------------------------------------------------------------
(* Properties.                                                             *)

LogOps == {"Log", "LogArgs", "LogErr", "LogErrArgs"}

\* goroutine c's logging call has handed its whole line to the stream
Done(c) == call[c].logged /\ pending[c] = <<>>

\* the last complete line of the stream: with one goroutine, the record of
\* the call that wrote last
EmittedRec == stdout[Len(stdout) - 1].val

\* the line of c's call is the last one of the stream, and the call wrote
\* nothing else
EmittedOnce(c) ==
    /\ Len(stdout) = call[c].out0 + 2
    /\ stdout[Len(stdout) - 1] = Obj(call[c].rec)
    /\ stdout[Len(stdout)] = Newline

FixedFields == {"msgTemplate", "msg", "time", "level", "file", "func", "line", "process"}

\* C1: a call on the fatal handle emits exactly one record and only then
\* panics, with the rendered message as the panic value, and never returns;
\* a call on any of the five other handles never panics, leaves the process
\* running and, once its line is written, can return.
C1_FatalOnlyTerminates ==
    /\ terminated => \E c \in DOMAIN pc : pc[c] = "panicked"
    /\ \A c \in DOMAIN pc :
         /\ pc[c] = "panicked" =>
              /\ call[c].logger.Level = "fatal"
              /\ EmittedOnce(c)
              /\ panicValue = <<EmittedRec["msg"]>>
         /\ call[c].logged /\ call[c].logger.Level = "fatal" => pc[c] # "ready"
         /\ call[c].logged /\ call[c].logger.Level # "fatal" =>
              /\ pc[c] # "panicked"
              /\ ~terminated
              /\ Done(c) /\ pc[c] = "encode" => ENABLED Return(c)
              /\ pc[c] = "ready" => EmittedOnce(c)

C1_Witness ==
    \E c \in DOMAIN pc :
        /\ pc[c] = "panicked"
        /\ call[c].logger.Level = "fatal"
        /\ Len(stdout) = 2

\* where the calling code is, for each stack of the bounded model
ExpectedLoc(ustk) ==
    CASE ustk = mainStack   -> <<"main.go", "main()", "59">>
      [] ustk = serveStack  -> <<"server.go", "ServeGrpc()", "120">>
      [] ustk = workerStack -> <<"gen.go", "?()", "7">>

\* C6: the file, func and line of every record, the one JSON emits on a
\* serialization failure included, are those of the frame that called the
\* public entry point (func is "?()" when the runtime has no function for
\* that frame), never of a frame of the logging package; GetStackInfo returns
\* its caller's frame for depth 0 and ("?", "?()", "0") for a depth that
\* exceeds the stack.
C6_CallSite ==
    \A c \in DOMAIN pc :
        /\ Done(c) =>
             /\ <<EmittedRec["file"], EmittedRec["func"], EmittedRec["line"]>>
                  = ExpectedLoc(call[c].ustk)
             /\ EmittedRec["file"] # "logging.go"
        /\ call[c].op = "GetStackInfo" =>
             /\ call[c].depth = 0 => ret[c] = ExpectedLoc(call[c].ustk)
             /\ call[c].depth >= Len(call[c].ustk) => ret[c] = <<"?", "?()", "0">>

C6_Witness ==
    \E c \in DOMAIN pc :
        /\ Done(c)
        /\ call[c].op \in LogOps
        /\ call[c].ustk = serveStack
        /\ EmittedRec["func"] = "ServeGrpc()"

\* the text of each template of the bounded model
RawText(lexemes) ==
    CASE lexemes = tplPlain    -> "hello"
      [] lexemes = tplOk       -> "hi {{.user}}"
      [] lexemes = tplBadParse -> "oops {{"
      [] lexemes = tplBadExec  -> "id={{.user.name}}"
      [] OTHER                 -> "error serializing value to json"

\* the message text/template reports for each failing template of the model
FailureText(lexemes) ==
    IF lexemes = tplBadParse
    THEN "template: :1: unclosed action"
    ELSE "template: :1: executing at <.user.name>: can't evaluate field name in type string"

RenderingFails(lexemes) == lexemes \in {tplBadParse, tplBadExec}

\* the message a call must show: the template rendered with a non-nil
\* Argument Set, the raw template otherwise and on every failure
ExpectedMsg(lexemes, args) ==
    IF lexemes = tplOk /\ ~args.isNil
    THEN "hi " \o (IF "user" \in DOMAIN args.m THEN args.m["user"] ELSE "")
    ELSE RawText(lexemes)

\* C3 as stated: a malformed template passed to any of the four entry points
\* yields a record with a diagnostic field and msg equal to the raw template.
C3_Original ==
    \A c \in DOMAIN pc :
        Done(c) /\ call[c].op \in LogOps /\ call[c].lexemes = tplBadParse =>
            /\ "arg__templateErr" \in DOMAIN EmittedRec
            /\ EmittedRec["msg"] = "oops {{"

\* C3, amended: a malformed template always yields msg (and msgTemplate) equal
\* to the raw template; the record carries the diagnostic field
\* arg__templateErr, holding the parse error's message, exactly when the call
\* came with a non-nil Argument Set (LogArgs, LogErrArgs); Log, LogErr and a
\* nil Argument Set give no diagnostic field.
C3_DiagnosticWithArgs ==
    \A c \in DOMAIN pc :
        Done(c) /\ call[c].op \in LogOps /\ call[c].lexemes = tplBadParse =>
            /\ EmittedRec["msg"] = "oops {{"
            /\ EmittedRec["msgTemplate"] = "oops {{"
            /\ ~call[c].args.isNil =>
                 /\ "arg__templateErr" \in DOMAIN EmittedRec
                 /\ EmittedRec["arg__templateErr"] = "template: :1: unclosed action"
            /\ call[c].args.isNil => "arg__templateErr" \notin DOMAIN EmittedRec

C3_Witness ==
    \E c \in DOMAIN pc :
        /\ Done(c)
        /\ call[c].op = "LogArgs"
        /\ call[c].lexemes = tplBadParse
        /\ call[c].args = MapArgs(<<>>)
        /\ EmittedRec["arg__templateErr"] = "template: :1: unclosed action"

\* the fixed fields of c's record hold their own values
FixedFieldsKept(c) ==
    /\ EmittedRec["msgTemplate"] = RawText(call[c].lexemes)
    /\ EmittedRec["msg"] = ExpectedMsg(call[c].lexemes, call[c].args)
    /\ EmittedRec["time"] = FormatTime(call[c].now)
    /\ EmittedRec["level"] = call[c].logger.Level
    /\ <<EmittedRec["file"], EmittedRec["func"], EmittedRec["line"]>> = ExpectedLoc(call[c].ustk)
    /\ EmittedRec["process"] = "lokalise-listener"

\* C4 as stated: whatever the rendering outcome, every caller-supplied
\* argument k is emitted as arg_k with the caller's value, and the fixed
\* fields keep their values.
C4_Original ==
    \A c \in DOMAIN pc :
        Done(c) /\ call[c].op \in {"LogArgs", "LogErrArgs"} /\ ~call[c].args.isNil =>
            /\ \A k \in DOMAIN call[c].args.m :
                 /\ ("arg_" \o k) \in DOMAIN EmittedRec
                 /\ EmittedRec["arg_" \o k] = call[c].args.m[k]
            /\ FixedFieldsKept(c)

\* C4, amended: every caller-supplied argument k is emitted as arg_k with the
\* caller's value, except that when rendering fails the field arg__templateErr
\* holds the failure's message in place of a caller's value for the name
\* "_templateErr"; the fixed fields keep their values, and the record has no
\* other field than these and error.
C4_ArgFields ==
    \A c \in DOMAIN pc :
        Done(c) /\ call[c].op \in {"LogArgs", "LogErrArgs"} /\ ~call[c].args.isNil =>
            /\ \A k \in DOMAIN call[c].args.m :
                 k # "_templateErr" \/ ~RenderingFails(call[c].lexemes) =>
                     /\ ("arg_" \o k) \in DOMAIN EmittedRec
                     /\ EmittedRec["arg_" \o k] = call[c].args.m[k]
            /\ RenderingFails(call[c].lexemes) =>
                 /\ "arg__templateErr" \in DOMAIN EmittedRec
                 /\ EmittedRec["arg__templateErr"] = FailureText(call[c].lexemes)
            /\ FixedFieldsKept(c)
            /\ DOMAIN EmittedRec =
                 FixedFields
                   \cup {"arg_" \o k : k \in DOMAIN call[c].args.m}
                   \cup (IF RenderingFails(call[c].lexemes) THEN {"arg__templateErr"} ELSE {})
                   \cup (IF call[c].err # NilErr THEN {"error"} ELSE {})

C4_Witness ==
    \E c \in DOMAIN pc :
        /\ Done(c)
        /\ call[c].op = "LogArgs"
        /\ call[c].args = MapArgs([user |-> "alice", msg |-> "bob"])
        /\ call[c].lexemes = tplOk
        /\ EmittedRec["arg_msg"] = "bob"
        /\ EmittedRec["msg"] = "hi alice"

\* C5 as stated: when execution of a parsed template fails, the call returns
\* normally, msg is the raw template and arg__templateErr holds the execution
\* error's message.
C5_Original ==
    \A c \in DOMAIN pc :
        Done(c) /\ call[c].op \in LogOps /\ ~call[c].args.isNil
                /\ call[c].lexemes = tplBadExec =>
            /\ pc[c] # "panicked"
            /\ EmittedRec["msg"] = "id={{.user.name}}"
            /\ "arg__templateErr" \in DOMAIN EmittedRec
            /\ EmittedRec["arg__templateErr"] = FailureText(tplBadExec)

\* C5, amended: when execution of a parsed template fails, msg is the raw
\* template (nothing of the partial output) and arg__templateErr holds the
\* execution error's message; the call returns normally on the five non-fatal
\* handles, and on the fatal handle it panics after the emission like every
\* fatal call.
C5_ExecFailure ==
    \A c \in DOMAIN pc :
        Done(c) /\ call[c].op \in LogOps /\ ~call[c].args.isNil
                /\ call[c].lexemes = tplBadExec =>
            /\ EmittedRec["msg"] = "id={{.user.name}}"
            /\ "arg__templateErr" \in DOMAIN EmittedRec
            /\ EmittedRec["arg__templateErr"] = FailureText(tplBadExec)
            /\ call[c].logger.Level # "fatal" =>
                 /\ pc[c] # "panicked"
                 /\ pc[c] = "encode" => ENABLED Return(c)
            /\ call[c].logger.Level = "fatal" =>
                 /\ pc[c] # "ready"
                 /\ pc[c] = "encode" => ENABLED Panic(c)

C5_Witness ==
    \E c \in DOMAIN pc :
        /\ Done(c)
        /\ pc[c] = "ready"
        /\ call[c].op = "LogErrArgs"
        /\ call[c].lexemes = tplBadExec
        /\ call[c].logger.Level = "info"
        /\ EmittedRec["msg"] = "id={{.user.name}}"

\* C8: a message logged through Log or LogErr is emitted verbatim as msg and
\* as msgTemplate, template markers included, and the record has no arg_
\* field: its fields are the fixed ones and, at most, error.
C8_PlainMessage ==
    \A c \in DOMAIN pc :
        Done(c) /\ call[c].op \in {"Log", "LogErr"} =>
            /\ EmittedRec["msg"] = RawText(call[c].lexemes)
            /\ EmittedRec["msgTemplate"] = RawText(call[c].lexemes)
            /\ DOMAIN EmittedRec \subseteq FixedFields \cup {"error"}

C8_Witness ==
    \E c \in DOMAIN pc :
        /\ Done(c)
        /\ call[c].op = "Log"
        /\ call[c].lexemes = tplOk
        /\ EmittedRec["msg"] = "hi {{.user}}"

\* C9: a record has an error field exactly when the call was given a non-nil
\* error, and the field then holds that error's message (the empty message
\* included), whatever the template, its rendering outcome and the arguments.
C9_ErrorField ==
    \A c \in DOMAIN pc :
        Done(c) =>
            /\ ("error" \in DOMAIN EmittedRec) <=> (call[c].err # NilErr)
            /\ call[c].err # NilErr => EmittedRec["error"] = call[c].err[1]

C9_Witness ==
    \E c \in DOMAIN pc :
        /\ Done(c)
        /\ call[c].op = "LogErrArgs"
        /\ call[c].lexemes = tplBadParse
        /\ call[c].err = Err("boom")
        /\ EmittedRec["error"] = "boom"

\* C10: a call that renders its template, or that is given no Argument Set,
\* leaves the caller's map as it was; a call whose template fails to parse or
\* to execute sets the key "_templateErr" of the caller's map to the failure's
\* message and changes no other key; a call given a map that holds
\* "_templateErr" emits it as arg__templateErr.
C10_CallerMap ==
    \A c \in DOMAIN pc :
        call[c].logged =>
            /\ call[c].args.isNil \/ ~RenderingFails(call[c].lexemes) =>
                 heap[c] = call[c].heap0
            /\ ~call[c].args.isNil /\ RenderingFails(call[c].lexemes) =>
                 /\ DOMAIN heap[c] = DOMAIN call[c].heap0 \cup {"_templateErr"}
                 /\ heap[c]["_templateErr"] = FailureText(call[c].lexemes)
                 /\ \A k \in DOMAIN call[c].heap0 :
                      k # "_templateErr" => heap[c][k] = call[c].heap0[k]
            /\ Done(c) /\ ~call[c].args.isNil /\ "_templateErr" \in DOMAIN call[c].args.m =>
                 "arg__templateErr" \in DOMAIN EmittedRec

\* a call reuses the map an earlier, failing call was given
C10_Witness ==
    \E c \in DOMAIN pc :
        /\ Done(c)
        /\ ncalls[c] = 2
        /\ call[c].lexemes = tplOk
        /\ call[c].args = MapArgs(("user" :> "alice") @@ ("msg" :> "bob")
                                  @@ ("_templateErr" :> "template: :1: unclosed action"))
        /\ EmittedRec["arg__templateErr"] = "template: :1: unclosed action"
        /\ heap[c] = call[c].args.m

\* C7: JSON never panics; for a serializable value it returns the JSON text
\* and emits nothing; for a value that cannot be serialized it emits exactly
\* one record, at level "error" and with the serialization error as its error
\* field, and then returns "<error: ...>" with that error's message.
C7_JSONNeverFails ==
    \A c \in DOMAIN pc :
        call[c].op = "JSON" =>
            /\ pc[c] # "panicked"
            /\ call[c].jval \in {jInt, jString} =>
                 /\ ~call[c].logged
                 /\ pc[c] = "ready"
                 /\ Len(stdout) = call[c].out0
                 /\ ret[c] = <<IF call[c].jval = jInt THEN "42" ELSE "\"a<b\"">>
            /\ call[c].jval \in {jChan, jFunc} =>
                 /\ call[c].logged
                 /\ pc[c] = "encode" /\ Done(c) => ENABLED Return(c)
                 /\ pc[c] = "ready" =>
                      /\ EmittedOnce(c)
                      /\ EmittedRec["level"] = "error"
                      /\ EmittedRec["msg"] = "error serializing value to json"
                      /\ EmittedRec["error"] =
                           (IF call[c].jval = jChan THEN "json: unsupported type: chan"
                                                    ELSE "json: unsupported type: func")
                      /\ ret[c] = <<"<error: " \o EmittedRec["error"] \o ">">>

C7_Witness ==
    \E c \in DOMAIN pc :
        /\ call[c].op = "JSON"
        /\ call[c].jval = jChan
        /\ pc[c] = "ready"
        /\ stdout # <<>>
        /\ ret[c] = <<"<error: json: unsupported type: chan>">>

\* the stream is a sequence of whole lines: an object, then its newline
WholeLines ==
    /\ Len(stdout) % 2 = 0
    /\ \A i \in 1..Len(stdout) :
         stdout[i].kind = (IF i % 2 = 1 THEN "obj" ELSE "nl")

\* the lines of the stream that hold the record of c's call
LinesOf(c) == {i \in 1..Len(stdout) : stdout[i] = Obj(call[c].rec)}

\* no call is running any more: every goroutine has made its call, and each
\* call has returned or the process is gone
AllCallsOver ==
    \A c \in DOMAIN pc : call[c].logged /\ (terminated \/ pc[c] = "ready")

\* C2 as stated: N concurrent calls leave exactly N lines, each the complete
\* record of one call.
C2_Original ==
    AllCallsOver =>
        /\ WholeLines
        /\ Len(stdout) = 2 * Cardinality(DOMAIN pc)
        /\ \A c \in DOMAIN pc : Cardinality(LinesOf(c)) = 1

\* C2, amended: at every moment the stream consists of whole lines, each the
\* complete record of exactly one call, and each call that has performed its
\* write has exactly one line while a call that has not has none; so N
\* concurrent calls leave exactly N lines once all of them have written,
\* which a fatal-level call among them can prevent: its panic ends the
\* process and the calls that have not written yet leave no line.
C2_WholeLinesPerCall ==
    /\ WholeLines
    /\ \A c \in DOMAIN pc :
         Cardinality(LinesOf(c)) = (IF Done(c) THEN 1 ELSE 0)
    /\ \A i \in 1..Len(stdout) :
         stdout[i].kind = "obj" =>
             Cardinality({c \in DOMAIN pc : Done(c) /\ stdout[i] = Obj(call[c].rec)}) = 1
    /\ (\A c \in DOMAIN pc : Done(c)) => Len(stdout) = 2 * Cardinality(DOMAIN pc)

\* two calls were in flight together and both lines are in the stream
C2_Witness ==
    \E c, d \in DOMAIN pc :
        /\ c # d
        /\ Done(c) /\ Done(d)
        /\ call[c].now < call[d].now
        /\ stdout[1] = Obj(call[d].rec)
        /\ stdout[3] = Obj(call[c].rec)
        /\ Len(stdout) = 4

====
